---- MODULE Spec2Model ----
(***************************************************************************)
(* A model of spectrochempy's coordinate classes                           *)
(* (spectrochempy/core/dataset/ndcoords.py): CoordRange, the normalized    *)
(* set of intervals, and Coord, the 1-D coordinate axis.                   *)
(*                                                                         *)
(* Python lists are sequences; a pair [a, b] is <<a, b>>, so r[0] and r[1] *)
(* of the code are r[1] and r[2] here.  Indices returned to the caller are *)
(* kept 0-based, as in the code.                                           *)
(***************************************************************************)
EXTENDS Integers, Sequences, FiniteSets

\* ------------------------------------------------------------------ bounds

\* most pairs passed to one CoordRange(...) call
MaxPairs == 2
\* interval endpoints are drawn from 1..MaxVal
MaxVal == 5
\* most pairs passed to one direct call of _cleanranges
MaxCleanPairs == 3
\* their endpoints are drawn from 1..MaxCleanVal
MaxCleanVal == 3
\* most reverse() calls made on one CoordRange
MaxReverse == 2
\* most points of one Coord
MaxLen == 3
\* coordinate values are drawn from 0..MaxData
MaxData == 3
\* the data passed to Coord(...) has 1..MaxDim dimensions
MaxDim == 2
\* a 2-D dataset has 1..MaxRows rows and 1..MaxCols columns
MaxRows == 2
MaxCols == 2
\* most em calls made on one dataset
MaxEm == 2
\* the line broadening lb is drawn from 0..MaxLb
MaxLb == 2
\* multiplot is given 1..MaxSources sources
MaxSources == 5
\* and asked for 1..MaxGrid rows and 1..MaxGrid columns
MaxGrid == 3
\* the clock reads 0..MaxTime
MaxTime == 6
\* an NDArray that is sliced has 1..MaxArr elements
MaxArr == 5
\* the operands of arithmetic have 1..MaxOperand elements
MaxOperand == 3
\* most operations made on the operands
MaxOps == 2
\* most Coord objects built on the source array and on each other
MaxObjs == 2
\* most copies made of one original Coord and of its copies
MaxCopies == 1
\* a dataset has 1..MaxAxes axes
MaxAxes == 2
\* an axis has 1..MaxExtent points
MaxExtent == 2

VARIABLES
    args,          \* CoordRange: the positional arguments *ranges of the call
    kw_reversed,   \* CoordRange: the keyword argument reversed
    cr_state,      \* CoordRange: "unbuilt", "built", or the exception raised
    ranges,        \* CoordRange.ranges
    reversed,      \* CoordRange.reversed
    built_ranges,  \* CoordRange.ranges as __init__ left them
    nrev,          \* number of reverse() calls made since construction
    clean_out,     \* outcome of a direct call CoordRange._cleanranges(args)
    clean_twice,   \* outcome of _cleanranges called on the list it returned
    c_data,        \* Coord: the values of the data passed in, <<>> for None
    c_ndim_in,     \* Coord: the number of dimensions of the data passed in
    c_labels,      \* Coord: the labels passed in, <<>> for None
    c_state,       \* Coord: "unbuilt", "ok", or the exception __init__ raised
    l2i_loc,       \* the loc of the latest _loc2index call
    l2i,           \* the outcome of the latest _loc2index call
    c_self,        \* Coord: self._data, <<>> before __init__ has run
    c_title,       \* Coord: the title, a sequence of characters
    isrev,         \* the latest value read from is_reversed, <<>> if none
    h_bufs,        \* memory: the array buffers, a buffer's id is its index
    h_objs,        \* memory: the Coord objects, an object's id is its index
    h_last,        \* memory: the latest operation, its target and its result
    d_shape,       \* NDDataset: the shape of the data
    d_coordset,    \* NDDataset: the sizes of the coordset entries, <<>> for None
    d_exc,         \* NDDataset: the outcome of the latest coordset assignment
    csv_out,       \* the outcome of the latest _read_csv call
    em_data,       \* em: the dataset, the exponent each element was damped by
    em_shape0,     \* em: the shape of the dataset before any em call
    em_n,          \* em: the number of em calls made
    em_call,       \* em: the line broadening and the axis of the latest call
    mp_in,         \* multiplot: the arguments of the call
    mp_out,        \* multiplot: the outcome of the call
    t_now,         \* the clock, what datetime.now() returned last
    t_date,        \* NDDataset._date, the creation date
    t_modified,    \* NDDataset._modified
    t_last,        \* the kind of the latest operation on the dataset
    nd_a,          \* NDArray: the array operated on, [data, mask, unc, units]
    nd_b,          \* NDArray: the other operand of arithmetic
    nd_op,         \* NDArray: the latest operation and its arguments
    nd_out,        \* NDArray: the outcome of the latest operation
    nd_n           \* NDArray: the number of operations made

rangeVars == <<args, kw_reversed, cr_state, ranges, reversed, built_ranges,
               nrev, clean_out, clean_twice>>

coordVars == <<c_data, c_ndim_in, c_labels, c_state, l2i_loc, l2i, c_self,
               c_title, isrev>>

heapVars == <<h_bufs, h_objs, h_last>>

dataVars == <<d_shape, d_coordset, d_exc, csv_out>>

emVars == <<em_data, em_shape0, em_n, em_call>>

plotVars == <<mp_in, mp_out>>

stampVars == <<t_now, t_date, t_modified, t_last>>

arrVars == <<nd_a, nd_b, nd_op, nd_out, nd_n>>

vars == <<rangeVars, coordVars, heapVars, dataVars, emVars, plotVars,
          stampVars, arrVars>>

\* ------------------------------------------------------------ list helpers

Min2(a, b) == IF a <= b THEN a ELSE b

Last(s) == s[Len(s)]

Front(s) == SubSeq(s, 1, Len(s) - 1)

\* list.reverse()
ListReverse(s) == [i \in 1..Len(s) |-> s[Len(s) + 1 - i]]

\* ------------------------------------------------------------- CoordRange

\* an argument that is a scalar is modelled as the 1-tuple <<x>>
IsScalar(elt) == Len(elt) = 1

\* the sort key of _cleanranges: lambda r: min(r[0], r[1])
SortKey(r) == Min2(r[1], r[2])

\* sorted() is stable: r goes after every element whose key is <= its own
RECURSIVE InsertByKey(_, _)
InsertByKey(r, s) ==
    IF s = <<>> THEN <<r>>
    ELSE IF SortKey(Head(s)) <= SortKey(r)
         THEN <<Head(s)>> \o InsertByKey(r, Tail(s))
         ELSE <<r>> \o s

RECURSIVE Sorted(_)
Sorted(rs) ==
    IF rs = <<>> THEN <<>>
    ELSE InsertByKey(Last(rs), Sorted(Front(rs)))

\* the body of the merge loop that never extends the current interval
MergeStep_noextend(cleaned, range) ==
    LET n == Len(cleaned) IN
    IF range[1] <= cleaned[n][2]
    THEN cleaned
    ELSE Append(cleaned, range)

\* the body of the merge loop, with `<` in place of `<=`
MergeStep_touching(cleaned, range) ==
    LET n == Len(cleaned) IN
    IF range[1] < cleaned[n][2]
    THEN IF range[2] >= cleaned[n][2]
         THEN [cleaned EXCEPT ![n][2] = range[2]]
         ELSE cleaned
    ELSE Append(cleaned, range)

\* the body of the merge loop that sets the end without comparing it
MergeStep_overwrite(cleaned, range) ==
    LET n == Len(cleaned) IN
    IF range[1] <= cleaned[n][2]
    THEN [cleaned EXCEPT ![n][2] = range[2]]
    ELSE Append(cleaned, range)

\* the body of the merge loop: `for range in ranges[1:]`
MergeStep(cleaned, range) ==
    LET n == Len(cleaned) IN
    IF range[1] <= cleaned[n][2]
    THEN IF range[2] >= cleaned[n][2]
         THEN [cleaned EXCEPT ![n][2] = range[2]]
         ELSE cleaned
    ELSE Append(cleaned, range)

RECURSIVE MergeLoop(_, _)
MergeLoop(cleaned, rest) ==
    IF rest = <<>> THEN cleaned
    ELSE MergeLoop(MergeStep(cleaned, Head(rest)), Tail(rest))

\* CoordRange._cleanranges: [exc, val]; ranges[0] of an empty list raises
cleanranges(rs) ==
    IF Len(rs) = 0
    THEN [exc |-> "IndexError", val |-> <<>>]
    ELSE LET sorted == Sorted(rs) IN
         [exc |-> "none", val |-> MergeLoop(<<Head(sorted)>>, Tail(sorted))]

\* the Range trait of `ranges = List(Range)`: what is assigned to self.ranges
\* is stored with every pair ordered [low, high]
RangeTrait(rs) ==
    [i \in 1..Len(rs) |->
        IF Len(rs[i]) = 2 /\ rs[i][1] > rs[i][2]
        THEN <<rs[i][2], rs[i][1]>> ELSE rs[i]]

\* reverse() that reverses the list of pairs but not the pairs
reverse_outer_only(rs) == ListReverse(rs)

\* CoordRange.reverse: every pair reversed in place, then the list
reverse(rs) == ListReverse([i \in 1..Len(rs) |-> ListReverse(rs[i])])

\* CoordRange.nranges
nranges == Len(ranges)

\* the value first assigned to self.ranges, by constructor form
FirstAssign(a) ==
    IF Len(a) = 0
    THEN [exc |-> "none", val |-> <<>>]
    ELSE IF Len(a) = 2 /\ \A i \in 1..2 : IsScalar(a[i])
         THEN [exc |-> "none", val |-> RangeTrait(<<<<a[1][1], a[2][1]>>>>)]
         ELSE LET c == cleanranges(a) IN
              [exc |-> c.exc, val |-> RangeTrait(c.val)]

\* __init__ without the `if self.ranges:` guard before the second pass
init_unguarded(a, rev) ==
    LET first == FirstAssign(a) IN
    IF first.exc # "none" THEN first
    ELSE LET r1 == IF rev THEN reverse(first.val) ELSE first.val
             c  == cleanranges(r1)
         IN  [exc |-> c.exc, val |-> RangeTrait(c.val)]

\* CoordRange.__init__: the outcome [exc, val], val the stored ranges
init(a, rev) ==
    LET first == FirstAssign(a) IN
    IF first.exc # "none" THEN first
    ELSE LET r1 == IF rev THEN reverse(first.val) ELSE first.val IN
         IF Len(r1) > 0
         THEN LET c == cleanranges(r1) IN
              [exc |-> c.exc, val |-> RangeTrait(c.val)]
         ELSE [exc |-> "none", val |-> r1]

\* ------------------------------------------------------------------ Coord

\* the distance taken without np.abs
Abs_signed(x) == x

Abs(x) == IF x < 0 THEN -x ELSE x

\* Coord.ndim, the property that hides NDArray's
ndim == 1

\* the check of Coord.__init__ after NDArray's __init__ stored the data
coord_init == IF ndim > 1 THEN "ValueError" ELSE "ok"

\* NDArray's data when only labels are given: the indices of the labels,
\* counted from 1
ndarray_data_onebased(data, labels) ==
    IF data = <<>> THEN [i \in 1..Len(labels) |-> i] ELSE data

\* NDArray.__init__ as Coord uses it: the data stored as self._data; when
\* only labels are given, the indices 0..n-1 of the labels
ndarray_data(data, labels) ==
    IF data = <<>> THEN [i \in 1..Len(labels) |-> i - 1] ELSE data

\* str.lower() on one character
LowerChar(c) ==
    CASE c = "W" -> "w" [] c = "A" -> "a" [] c = "V" -> "v" [] c = "E" -> "e"
      [] c = "N" -> "n" [] c = "U" -> "u" [] c = "M" -> "m" [] c = "B" -> "b"
      [] c = "R" -> "r" [] c = "P" -> "p" [] OTHER -> c

\* str.lower()
lower(t) == [i \in 1..Len(t) |-> LowerChar(t[i])]

\* `sub in t` for strings
Contains(t, sub) ==
    \E i \in 1..(Len(t) - Len(sub) + 1) : SubSeq(t, i, i + Len(sub) - 1) = sub

Wavenumber == <<"w", "a", "v", "e", "n", "u", "m", "b", "e", "r">>

Ppm == <<"p", "p", "m">>

\* is_reversed decided by the order of the data
is_reversed_by_order(title, data) == data[1] > data[Len(data)]

\* Coord.is_reversed
is_reversed(title, data) ==
    IF Contains(lower(title), Wavenumber) \/ Contains(lower(title), Ppm)
    THEN TRUE
    ELSE FALSE

RECURSIVE FoldMax(_, _, _)
FoldMax(v, i, m) ==
    IF i > Len(v) THEN m
    ELSE FoldMax(v, i + 1, IF v[i] > m THEN v[i] ELSE m)

\* ndarray.max()
DataMax(v) == FoldMax(v, 2, v[1])

RECURSIVE FoldMin(_, _, _)
FoldMin(v, i, m) ==
    IF i > Len(v) THEN m
    ELSE FoldMin(v, i + 1, IF v[i] < m THEN v[i] ELSE m)

\* ndarray.min()
DataMin(v) == FoldMin(v, 2, v[1])

RECURSIVE ArgminScan(_, _, _)
ArgminScan(v, i, best) ==
    IF i > Len(v) THEN best
    ELSE ArgminScan(v, i + 1, IF v[i] < v[best] THEN i ELSE best)

RECURSIVE ArgminScanLast(_, _, _)
ArgminScanLast(v, i, best) ==
    IF i > Len(v) THEN best
    ELSE ArgminScanLast(v, i + 1, IF v[i] <= v[best] THEN i ELSE best)

\* an argmin that keeps the last of several equal minima
argmin_last(v) == ArgminScanLast(v, 2, 1) - 1

\* ndarray.argmin(): the 0-based index of the first occurrence of the minimum
argmin(v) == ArgminScan(v, 2, 1) - 1

\* an argwhere that reports 1-based positions
RECURSIVE argwhere_onebased(_, _, _)
argwhere_onebased(labels, x, i) ==
    IF i > Len(labels) THEN <<>>
    ELSE (IF labels[i] = x THEN <<i>> ELSE <<>>)
         \o argwhere_onebased(labels, x, i + 1)

\* np.argwhere(labels == loc).flatten(): the 0-based indexes, ascending
RECURSIVE argwhere(_, _, _)
argwhere(labels, x, i) ==
    IF i > Len(labels) THEN <<>>
    ELSE (IF labels[i] = x THEN <<i - 1>> ELSE <<>>)
         \o argwhere(labels, x, i + 1)

\* spectrochempy.utils.is_number
is_number(loc) == loc.kind = "number"

\* a _loc2index whose last branch returns index 0 instead of raising
loc2index_default(data, labels, loc) ==
    IF loc.kind = "str" /\ labels # <<>>
    THEN LET indexes == argwhere(labels, loc.text, 1) IN
         IF Len(indexes) > 0
         THEN [exc |-> "none", ret |-> <<indexes[1]>>, warned |-> FALSE]
         ELSE [exc |-> "IndexError", ret |-> <<>>, warned |-> FALSE]
    ELSE IF loc.kind = "datetime"
    THEN [exc |-> "none", ret |-> <<>>, warned |-> FALSE]
    ELSE IF is_number(loc)
    THEN [exc |-> "none",
          ret |-> <<argmin([i \in 1..Len(data) |-> Abs(data[i] - loc.val)])>>,
          warned |-> (loc.val > DataMax(data) \/ loc.val < DataMin(data))]
    ELSE [exc |-> "none", ret |-> <<0>>, warned |-> FALSE]

\* Coord._loc2index: [exc, ret, warned]; ret is <<index>>, or <<>> when
\* nothing (None) is returned.  A loc is [kind, text, val]: the text of a
\* str, the value of a number
loc2index(data, labels, loc) ==
    IF loc.kind = "str" /\ labels # <<>>
    THEN LET indexes == argwhere(labels, loc.text, 1) IN
         IF Len(indexes) > 0
         THEN [exc |-> "none", ret |-> <<indexes[1]>>, warned |-> FALSE]
         ELSE [exc |-> "IndexError", ret |-> <<>>, warned |-> FALSE]
    ELSE IF loc.kind = "datetime"
    THEN [exc |-> "none", ret |-> <<>>, warned |-> FALSE]
    ELSE IF is_number(loc)
    THEN [exc |-> "none",
          ret |-> <<argmin([i \in 1..Len(data) |-> Abs(data[i] - loc.val)])>>,
          warned |-> (loc.val > DataMax(data) \/ loc.val < DataMin(data))]
    ELSE [exc |-> "IndexError", ret |-> <<>>, warned |-> FALSE]

\* ------------------------------------------------------------------ inputs

Vals == 1..MaxVal

Pairs == {<<a, b>> : a \in Vals, b \in Vals}

SeqsUpTo(S, n) == UNION {[1..k -> S] : k \in 0..n}

\* no argument, or a collection of pairs
PairArgs == SeqsUpTo(Pairs, MaxPairs)

\* the lists of pairs passed to _cleanranges directly
CleanArgs ==
    SeqsUpTo({<<a, b>> : a \in 1..MaxCleanVal, b \in 1..MaxCleanVal},
             MaxCleanPairs)

\* two scalars
ScalarArgs == {<<<<a>>, <<b>>>> : a \in Vals, b \in Vals}

NotCalled == [exc |-> "notcalled", val |-> <<>>]

LabelVals == {"a", "b"}

DataSeqs == UNION {[1..k -> 0..MaxData] : k \in 1..MaxLen}

\* a label, a label no Coord carries, a date, numbers in and around the
\* domain, and an object of another type
Locs ==
    {[kind |-> "str", text |-> x, val |-> 0] : x \in LabelVals \cup {"z"}}
    \cup {[kind |-> "number", text |-> "", val |-> x] :
              x \in (0 - 1)..(MaxData + 1)}
    \cup {[kind |-> "datetime", text |-> "", val |-> 0],
          [kind |-> "other", text |-> "", val |-> 0]}

\* titles with and without the two substrings, in either case
Titles ==
    {<<"w", "a", "v", "e", "n", "u", "m", "b", "e", "r">>,
     <<"W", "a", "v", "e", "n", "u", "m", "b", "e", "r", "s">>,
     <<"W", "A", "V", "E", "N", "U", "M", "B", "E", "R">>,
     <<"w", "a", "v", "e", "n", "u", "m", "b", "e">>,
     <<"w", "a", "v", "e", " ", "n", "u", "m", "b", "e", "r">>,
     <<"p", "p", "m">>,
     <<"P", "P", "M">>,
     <<"d", " ", "(", "p", "p", "m", ")">>,
     <<"p", "p", " ", "m">>,
     <<"p", "m">>,
     <<"w", "a", "v", "e", "l", "e", "n", "g", "t", "h">>,
     <<"t", "i", "m", "e">>,
     <<>>}

NoLoc == [kind |-> "other", text |-> "", val |-> 0]

NotLooked == [exc |-> "notcalled", ret |-> <<>>, warned |-> FALSE]

\* no CoordRange built yet, its arguments chosen
RangeUnbuilt(A, R) ==
    /\ args \in A
    /\ kw_reversed \in R
    /\ cr_state = "unbuilt"
    /\ ranges = <<>>
    /\ reversed = FALSE
    /\ built_ranges = <<>>
    /\ nrev = 0
    /\ clean_out = NotCalled
    /\ clean_twice = NotCalled

CoordFresh ==
    /\ c_state = "unbuilt"
    /\ c_self = <<>>
    /\ l2i_loc = NoLoc
    /\ l2i = NotLooked
    /\ isrev = <<>>

\* no Coord built yet, its arguments chosen
CoordUnbuilt(D, N, L, T) ==
    /\ c_data \in D
    /\ c_ndim_in \in N
    /\ c_labels \in {<<>>} \cup [1..Len(c_data) -> L]
    /\ c_title \in T
    /\ CoordFresh

\* no Coord built yet, from labels alone
LabelsOnlyUnbuilt(L) ==
    /\ c_data = <<>>
    /\ c_ndim_in = 1
    /\ c_labels \in UNION {[1..k -> L] : k \in 1..MaxLen}
    /\ c_title = <<>>
    /\ CoordFresh

\* ----------------------------------------------- Coord objects in memory
\* An array buffer is a sequence of values held in h_bufs under its id; two
\* arrays share memory exactly when they hold the same buffer id.  A Coord
\* object holds the id of its data buffer and of its mask buffer.

\* the values of an array element, and of a mask element (0 is not masked)
BufVals == 0..1

\* the units of an object: none, or those the ndarrayunit fixture sets
UnitVals == {"", "m/s"}

NoOp == [op |-> "none", target |-> 0, ret |-> 0]

T_none(self) == 0

\* Coord.T
T(self) == self

take_data_shared(bufs, b, copy) == b

\* Coord(source, copy=copy): the id of the buffer the new object holds for
\* the buffer b of the source; the data are passed by reference unless copy
take_data(bufs, b, copy) == IF copy THEN Len(bufs) + 1 ELSE b

copy_buf_shallow(bufs, b) == b

\* obj.copy(): the id of the buffer the copy holds for the buffer b of obj
copy_buf(bufs, b) == Len(bufs) + 1

\* the memory once the id is bound: an id past the end is a new buffer that
\* starts with the content of b
alloc(bufs, id, b) == IF id > Len(bufs) THEN Append(bufs, bufs[b]) ELSE bufs

\* what a reader sees of the object o in the memory (bufs, objs)
View(bufs, objs, o) ==
    [data |-> bufs[objs[o].buf],
     mask |-> bufs[objs[o].mask],
     labels |-> objs[o].labels,
     units |-> objs[o].units]

\* no object and no array exists
HeapEmpty ==
    /\ h_bufs = <<>>
    /\ h_objs = <<>>
    /\ h_last = NoOp

\* ------------------------------------------------------------ em, apodize
\* The window of em is exp(-e): an element of the dataset is modelled by the
\* sum of the exponents e it has been multiplied by, the constant factor pi
\* left out.

\* the shifts of the time origin
Shifts == 0..1

NoEm == [lb |-> 0, axis |-> 0]

\* the shape of a 2-D array
Shape(data) == <<Len(data), Len(data[1])>>

\* the line broadening em uses: the keyword lb or, when that is absent or 0,
\* the first positional argument
em_lb(kw_lb, pos) == IF kw_lb = 0 /\ Len(pos) > 0 THEN pos[1] ELSE kw_lb

\* func of em: the exponent at every point of x; the time constant tc1 is
\* 1 / lb, and is 0 (not above epsilon) for lb = 0
func(x, lb, shifted) ==
    [i \in 1..Len(x) |-> IF lb = 0 THEN 1 ELSE Abs(x[i] - shifted) * lb]

apodize_curve(data, lb, shifted, axis) ==
    LET n == IF axis = 0 THEN Len(data) ELSE Len(data[1])
    IN  <<func([i \in 1..n |-> i - 1], lb, shifted)>>

\* apodize: the window is computed on the coordinate of the axis and the
\* data are multiplied by it along that axis
apodize(data, lb, shifted, axis) ==
    LET n == IF axis = 0 THEN Len(data) ELSE Len(data[1])
        e == func([i \in 1..n |-> i - 1], lb, shifted)
    IN  [r \in 1..Len(data) |->
            [c \in 1..Len(data[1]) |->
                data[r][c] + (IF axis = 0 THEN e[r] ELSE e[c])]]

\* em(dataset, *pos, lb=kw_lb, shifted=shifted, axis=axis)
em(data, kw_lb, pos, shifted, axis) ==
    apodize(data, em_lb(kw_lb, pos), shifted, axis)

\* no dataset to apodize
EmEmpty ==
    /\ em_data = <<>>
    /\ em_shape0 = <<>>
    /\ em_n = 0
    /\ em_call = NoEm

\* -------------------------------------------------------------- multiplot
\* A subplot is named by <<row, column>>, counted from 1 as in 'axe12'; the
\* axis a subplot shares is the name of the subplot it shares it with, and
\* NoAxe when it shares none.  The options None, False and True of sharex,
\* sharey and sharez are the strings "None", "False" and "True".

NoAxe == <<0, 0>>

ShareOpts == {"None", "False", "True", "all", "col", "row"}

\* the truth value of a share option
Truthy(o) == o \notin {"None", "False"}

NotPlotted == [exc |-> "notcalled", nrow |-> 0, ncol |-> 0, cells |-> <<>>]

\* the grid multiplot uses for n sources: [exc, one, nrow, ncol], one for
\* the single plot returned at once
grid(n, nrow, ncol, single) ==
    IF n < nrow * ncol
    THEN [exc |-> "ValueError", one |-> FALSE, nrow |-> nrow, ncol |-> ncol]
    ELSE IF nrow = ncol /\ nrow = 1 /\ single
    THEN [exc |-> "none", one |-> TRUE, nrow |-> nrow, ncol |-> ncol]
    ELSE IF nrow * ncol < n
    THEN LET h == n \div 2 IN
         [exc |-> "none", one |-> FALSE, nrow |-> h,
          ncol |-> IF h * h < n THEN h + 1 ELSE h]
    ELSE [exc |-> "none", one |-> FALSE, nrow |-> nrow, ncol |-> ncol]

\* the share options as the loop over the subplots sees them
shares(sharex, sharey, sharez, method, nd) ==
    IF sharex \notin {"None", "True", "False", "all", "col"}
    THEN [exc |-> "ValueError", sharex |-> sharex, sharey |-> sharey,
          sharez |-> sharez]
    ELSE LET sx == IF Truthy(sharex) THEN "all" ELSE sharex
             z0 == IF nd = 1 THEN "False" ELSE sharez
             sz == IF method = "stack" THEN sharey ELSE z0
             sy == IF method = "stack" THEN z0 ELSE sharey
         IN  IF sy \notin {"None", "False", "True", "all", "col"}
             THEN [exc |-> "ValueError", sharex |-> sx, sharey |-> sy,
                   sharez |-> sz]
             ELSE IF sz \notin {"None", "False", "True", "all", "col", "row"}
             THEN [exc |-> "ValueError", sharex |-> sx, sharey |-> sy,
                   sharez |-> sz]
             ELSE [exc |-> "none", sharex |-> sx,
                   sharey |-> IF Truthy(sy) THEN "all" ELSE sy,
                   sharez |-> IF Truthy(sz) THEN "all" ELSE sz]

\* the subplot made for the cell (irow, icol), both counted from 0
subplot(irow, icol, ncol, sh) ==
    IF \/ irow = icol /\ irow = 0
       \/ sh.sharex = "col" /\ irow = 0
       \/ sh.sharey = "row" /\ icol = 0
    THEN [idx |-> irow * ncol + icol, name |-> <<irow + 1, icol + 1>>,
          sharex |-> NoAxe, sharey |-> NoAxe, sharez |-> NoAxe]
    ELSE [idx |-> irow * ncol + icol, name |-> <<irow + 1, icol + 1>>,
          sharex |-> IF sh.sharex = "all" THEN <<1, 1>>
                     ELSE IF sh.sharex = "col" THEN <<1, icol + 1>>
                     ELSE NoAxe,
          sharey |-> IF sh.sharey = "all" THEN <<1, 1>>
                     ELSE IF sh.sharey = "row" THEN <<irow + 1, 1>>
                     ELSE NoAxe,
          sharez |-> IF sh.sharez = "all" THEN <<1, 1>>
                     ELSE IF sh.sharez = "row" THEN <<irow + 1, 1>>
                     ELSE IF sh.sharez = "col" THEN <<1, icol + 1>>
                     ELSE NoAxe]

\* the two loops over the grid, from the cell k on, k = irow * ncol + icol:
\* sources[idx] raises IndexError past the end of the n sources
RECURSIVE plot_loop(_, _, _, _, _, _)
plot_loop(k, n, nrow, ncol, sh, cells) ==
    IF k >= nrow * ncol
    THEN [exc |-> "none", nrow |-> nrow, ncol |-> ncol, cells |-> cells]
    ELSE IF k >= n
    THEN [exc |-> "IndexError", nrow |-> nrow, ncol |-> ncol, cells |-> cells]
    ELSE plot_loop(k + 1, n, nrow, ncol, sh,
                   Append(cells, subplot(k \div ncol, k % ncol, ncol, sh)))

\* multiplot(sources, nrow=, ncol=, method=, sharex=, sharey=, sharez=) for
\* n sources of ndim dimensions, method other than 'with_transposed'
multiplot(a) ==
    LET g == grid(a.n, a.nrow, a.ncol, a.single)
        sh == shares(a.sharex, a.sharey, a.sharez, a.method, a.ndim)
    IN  IF g.exc # "none"
        THEN [exc |-> g.exc, nrow |-> g.nrow, ncol |-> g.ncol, cells |-> <<>>]
        ELSE IF g.one
        THEN [exc |-> "none", nrow |-> g.nrow, ncol |-> g.ncol,
              cells |-> <<[idx |-> 0, name |-> <<1, 1>>, sharex |-> NoAxe,
                           sharey |-> NoAxe, sharez |-> NoAxe]>>]
        ELSE IF sh.exc # "none"
        THEN [exc |-> sh.exc, nrow |-> g.nrow, ncol |-> g.ncol, cells |-> <<>>]
        ELSE plot_loop(0, a.n, g.nrow, g.ncol, sh, <<>>)

\* the calls of multiplot: a single source not in a list is one source
PlotArgs ==
    [n : 1..MaxSources, nrow : 1..MaxGrid, ncol : 1..MaxGrid,
     single : {FALSE}, method : {"stack", "map"}, ndim : 1..2,
     sharex : ShareOpts, sharey : ShareOpts, sharez : {"False", "row"}]
    \cup
    [n : {1}, nrow : 1..MaxGrid, ncol : 1..MaxGrid,
     single : {TRUE}, method : {"stack", "map"}, ndim : 1..2,
     sharex : {"False"}, sharey : {"False"}, sharez : {"False"}]

NoPlotArgs ==
    [n |-> 1, nrow |-> 1, ncol |-> 1, single |-> TRUE, method |-> "stack",
     ndim |-> 1, sharex |-> "False", sharey |-> "False", sharez |-> "False"]

\* multiplot is not called
PlotEmpty ==
    /\ mp_in = NoPlotArgs
    /\ mp_out = NotPlotted

\* ------------------------------------------------- dates of an NDDataset

stamp_keep(date, modified, now) == [date |-> now, modified |-> modified]

\* the end of _read_csv and of _add_omnic_info: _date = datetime.now(),
\* _modified = self.date
stamp(date, modified, now) == [date |-> now, modified |-> now]

\* a mutating method of NDDataset: modified is updated to now
touch(date, modified, now) == [date |-> date, modified |-> now]

\* no dataset carries dates
StampEmpty ==
    /\ t_now = 0
    /\ t_date = 0
    /\ t_modified = 0
    /\ t_last = "none"

\* ---------------------------------------------------------------- NDArray
\* A 1-D NDArray is [data, mask, unc, units]: the buffer, the mask (TRUE
\* marks an excluded element), the uncertainty (<<>> when absent) and the
\* unit tag.

Units == {"s", "min", "m"}

\* the dimensionality of a unit
Dim(u) == IF u = "m" THEN "length" ELSE "time"

\* the size of a unit in the base unit of its dimensionality
Factor(u) == IF u = "min" THEN 60 ELSE 1

NoArray == [data |-> <<>>, mask |-> <<>>, unc |-> <<>>, units |-> "s"]

NoOperation == [op |-> "none", lo |-> 0, hi |-> 0, target |-> "s"]

NoOutcome == [exc |-> "notcalled", val |-> NoArray]

\* a bound of a Python slice on a sequence of n elements: a negative bound
\* counts from the end, and the bound is clipped into 0..n
Bound(i, n) ==
    LET j == IF i < 0 THEN i + n ELSE i IN
    IF j < 0 THEN 0 ELSE IF j > n THEN n ELSE j

\* s[lo:hi]
PySlice(s, lo, hi) == SubSeq(s, Bound(lo, Len(s)) + 1, Bound(hi, Len(s)))

getitem_mask_kept(arr, lo, hi) ==
    [data |-> PySlice(arr.data, lo, hi),
     mask |-> arr.mask,
     unc |-> PySlice(arr.unc, lo, hi),
     units |-> arr.units]

\* arr[lo:hi]: the buffer, the mask and the uncertainty under one selection
getitem(arr, lo, hi) ==
    [data |-> PySlice(arr.data, lo, hi),
     mask |-> PySlice(arr.mask, lo, hi),
     unc |-> PySlice(arr.unc, lo, hi),
     units |-> arr.units]

\* arr[i], i an integer: IndexError out of range, else the one element
getindex(arr, i) ==
    LET n == Len(arr.data)
        j == IF i < 0 THEN i + n ELSE i
    IN  IF j < 0 \/ j >= n
        THEN [exc |-> "IndexError", val |-> NoArray]
        ELSE [exc |-> "none", val |-> getitem(arr, j, j + 1)]

\* the value v, in the unit u, expressed in the unit w
rescale(v, u, w) == (v * Factor(u)) \div Factor(w)

to_tag_only(arr, w) ==
    IF Dim(w) # Dim(arr.units)
    THEN [exc |-> "units", val |-> arr]
    ELSE [exc |-> "none", val |-> [arr EXCEPT !.units = w]]

\* arr.to(w): the array after the call, and the error if any
to(arr, w) ==
    IF Dim(w) # Dim(arr.units)
    THEN [exc |-> "units", val |-> arr]
    ELSE [exc |-> "none",
          val |-> [arr EXCEPT
                      !.data = [i \in 1..Len(arr.data) |->
                                   rescale(arr.data[i], arr.units, w)],
                      !.unc = [i \in 1..Len(arr.unc) |->
                                  rescale(arr.unc[i], arr.units, w)],
                      !.units = w]]

add_mask_and(a, b) ==
    IF Len(a.data) # Len(b.data)
    THEN [exc |-> "shape", val |-> NoArray]
    ELSE IF Dim(a.units) # Dim(b.units)
    THEN [exc |-> "units", val |-> NoArray]
    ELSE [exc |-> "none",
          val |-> [data |-> [i \in 1..Len(a.data) |->
                      a.data[i] + rescale(b.data[i], b.units, a.units)],
                   mask |-> [i \in 1..Len(a.data) |->
                      a.mask[i] /\ b.mask[i]],
                   unc |-> <<>>,
                   units |-> a.units]]

\* a + b: b is expressed in the units of a, the masks are combined
add(a, b) ==
    IF Len(a.data) # Len(b.data)
    THEN [exc |-> "shape", val |-> NoArray]
    ELSE IF Dim(a.units) # Dim(b.units)
    THEN [exc |-> "units", val |-> NoArray]
    ELSE [exc |-> "none",
          val |-> [data |-> [i \in 1..Len(a.data) |->
                      a.data[i] + rescale(b.data[i], b.units, a.units)],
                   mask |-> [i \in 1..Len(a.data) |->
                      a.mask[i] \/ b.mask[i]],
                   unc |-> <<>>,
                   units |-> a.units]]

\* the array of n elements in the unit u whose element i is worth i of the
\* larger units of its dimensionality, so that every conversion is exact
Ramp(n, u) == [i \in 1..n |-> i * (IF u = "s" THEN 60 ELSE 1)]

\* the arrays of n elements in the units of U, with any mask
Arrays(n, U) ==
    {[data |-> Ramp(n, u), mask |-> m, unc |-> <<>>, units |-> u] :
        u \in U, m \in [1..n -> BOOLEAN]}

\* no NDArray exists
ArrEmpty ==
    /\ nd_a = NoArray
    /\ nd_b = NoArray
    /\ nd_op = NoOperation
    /\ nd_out = NoOutcome
    /\ nd_n = 0

\* ------------------------------------------------ NDDataset and its coords

Shapes == UNION {[1..k -> 1..MaxExtent] : k \in 1..MaxAxes}

\* the coordsets a caller may try to attach: one entry too many is possible
SizeLists == UNION {[1..k -> 1..MaxExtent] : k \in 1..(MaxAxes + 1)}

validate_count_only(shape, sizes) ==
    IF Len(sizes) # Len(shape) THEN "count" ELSE "none"

\* CoordSet validation against the shape of the owning array
validate(shape, sizes) ==
    IF Len(sizes) # Len(shape) THEN "count"
    ELSE IF \E k \in 1..Len(shape) : sizes[k] # shape[k] THEN "length"
    ELSE "none"

NotRead == [exc |-> "notcalled", shape |-> <<>>, coordset |-> <<>>]

NotTried == [exc |-> "none", tried |-> <<>>]

\* _read_csv on a file of n rows and two columns: d.T has shape (2, n), the
\* data d[1] and coord1 = d[0] have n points, coord0 is built from one label
read_csv(n, name) ==
    LET data == <<n>>
        coord0 == Len(ndarray_data(<<>>, <<name>>))
        coord1 == n
        exc == validate(data, <<coord0, coord1>>)
    IN  [exc |-> exc,
         shape |-> data,
         coordset |-> IF exc = "none" THEN <<coord0, coord1>> ELSE <<>>]

\* no dataset exists
DataEmpty ==
    /\ d_shape = <<>>
    /\ d_coordset = <<>>
    /\ d_exc = NotTried
    /\ csv_out = NotRead

InitRange ==
    /\ RangeUnbuilt(PairArgs \cup ScalarArgs, BOOLEAN)
    /\ CoordUnbuilt({<<0>>}, {1}, {}, {<<>>})
    /\ HeapEmpty
    /\ DataEmpty
    /\ EmEmpty
    /\ PlotEmpty
    /\ StampEmpty
    /\ ArrEmpty

InitClean ==
    /\ RangeUnbuilt(CleanArgs, {FALSE})
    /\ CoordUnbuilt({<<0>>}, {1}, {}, {<<>>})
    /\ HeapEmpty
    /\ DataEmpty
    /\ EmEmpty
    /\ PlotEmpty
    /\ StampEmpty
    /\ ArrEmpty

InitCoord ==
    /\ RangeUnbuilt({<<>>}, {FALSE})
    /\ \/ CoordUnbuilt(DataSeqs, 1..MaxDim, LabelVals, {<<>>})
       \/ LabelsOnlyUnbuilt(LabelVals)
    /\ HeapEmpty
    /\ DataEmpty
    /\ EmEmpty
    /\ PlotEmpty
    /\ StampEmpty
    /\ ArrEmpty

InitTitle ==
    /\ RangeUnbuilt({<<>>}, {FALSE})
    /\ CoordUnbuilt(DataSeqs, {1}, {}, Titles)
    /\ HeapEmpty
    /\ DataEmpty
    /\ EmEmpty
    /\ PlotEmpty
    /\ StampEmpty
    /\ ArrEmpty

\* one source array arr, buffer 1, and no Coord built on it yet
InitHeap ==
    /\ RangeUnbuilt({<<>>}, {FALSE})
    /\ CoordUnbuilt({<<0>>}, {1}, {}, {<<>>})
    /\ h_bufs \in {<<<<v>>>> : v \in BufVals}
    /\ h_objs = <<>>
    /\ h_last = NoOp
    /\ DataEmpty
    /\ EmEmpty
    /\ PlotEmpty
    /\ StampEmpty
    /\ ArrEmpty

\* one dataset holding data of some shape, and no coordset yet
InitData ==
    /\ RangeUnbuilt({<<>>}, {FALSE})
    /\ CoordUnbuilt({<<0>>}, {1}, {}, {<<>>})
    /\ HeapEmpty
    /\ d_shape \in Shapes
    /\ d_coordset = <<>>
    /\ d_exc = NotTried
    /\ csv_out = NotRead
    /\ EmEmpty
    /\ PlotEmpty
    /\ StampEmpty
    /\ ArrEmpty

\* a 2-D dataset of some shape, not yet apodized
InitEm ==
    /\ RangeUnbuilt({<<>>}, {FALSE})
    /\ CoordUnbuilt({<<0>>}, {1}, {}, {<<>>})
    /\ HeapEmpty
    /\ DataEmpty
    /\ \E nr \in 1..MaxRows, nc \in 1..MaxCols :
          em_data = [r \in 1..nr |-> [c \in 1..nc |-> 0]]
    /\ em_shape0 = Shape(em_data)
    /\ em_n = 0
    /\ em_call = NoEm
    /\ PlotEmpty
    /\ StampEmpty
    /\ ArrEmpty

\* a call of multiplot about to be made
InitPlot ==
    /\ RangeUnbuilt({<<>>}, {FALSE})
    /\ CoordUnbuilt({<<0>>}, {1}, {}, {<<>>})
    /\ HeapEmpty
    /\ DataEmpty
    /\ EmEmpty
    /\ mp_in \in PlotArgs
    /\ mp_out = NotPlotted
    /\ StampEmpty
    /\ ArrEmpty

\* a dataset just created, at some time
InitStamp ==
    /\ RangeUnbuilt({<<>>}, {FALSE})
    /\ CoordUnbuilt({<<0>>}, {1}, {}, {<<>>})
    /\ HeapEmpty
    /\ DataEmpty
    /\ EmEmpty
    /\ PlotEmpty
    /\ t_now \in 0..MaxTime
    /\ t_date = t_now
    /\ t_modified = t_now
    /\ t_last = "none"
    /\ ArrEmpty

AllElseEmpty ==
    /\ RangeUnbuilt({<<>>}, {FALSE})
    /\ CoordUnbuilt({<<0>>}, {1}, {}, {<<>>})
    /\ HeapEmpty
    /\ DataEmpty
    /\ EmEmpty
    /\ PlotEmpty
    /\ StampEmpty

\* one array with a mask, with or without uncertainty, not yet sliced
InitSlice ==
    /\ AllElseEmpty
    /\ \E n \in 1..MaxArr, u \in BOOLEAN :
          \E x \in Arrays(n, {"s"}) :
             nd_a = [x EXCEPT !.unc = IF u THEN Ramp(n, "m") ELSE <<>>]
    /\ nd_b = NoArray
    /\ nd_op = NoOperation
    /\ nd_out = NoOutcome
    /\ nd_n = 0

\* two arrays of one shape, each with a mask and units
InitArith ==
    /\ AllElseEmpty
    /\ \E n \in 1..MaxOperand :
          /\ nd_a \in Arrays(n, Units)
          /\ nd_b \in Arrays(n, Units)
    /\ nd_op = NoOperation
    /\ nd_out = NoOutcome
    /\ nd_n = 0

\* ----------------------------------------------------------------- actions

\* CoordRange(*args, reversed=kw_reversed)
Construct ==
    /\ cr_state = "unbuilt"
    /\ LET out == init(args, kw_reversed) IN
       /\ cr_state' = IF out.exc = "none" THEN "built" ELSE out.exc
       /\ ranges' = out.val
       /\ built_ranges' = out.val
    /\ reversed' = kw_reversed
    /\ UNCHANGED <<args, kw_reversed, nrev, clean_out, clean_twice,
                   coordVars, heapVars, dataVars, emVars, plotVars,
                   stampVars, arrVars>>

\* obj.reverse()
ReverseCall ==
    /\ cr_state = "built"
    /\ nrev < MaxReverse
    /\ ranges' = reverse(ranges)
    /\ nrev' = nrev + 1
    /\ UNCHANGED <<args, kw_reversed, cr_state, reversed, built_ranges,
                   clean_out, clean_twice, coordVars, heapVars, dataVars,
                   emVars, plotVars, stampVars, arrVars>>

\* CoordRange._cleanranges(args), the static method called on a list of pairs
CallCleanranges ==
    /\ args \in CleanArgs
    /\ clean_out' = cleanranges(args)
    /\ UNCHANGED <<args, kw_reversed, cr_state, ranges, reversed,
                   built_ranges, nrev, clean_twice, coordVars, heapVars,
                   dataVars, emVars, plotVars, stampVars, arrVars>>

\* CoordRange._cleanranges(r), r the list an earlier call returned
CleanAgain ==
    /\ clean_out.exc = "none"
    /\ clean_twice' = cleanranges(clean_out.val)
    /\ UNCHANGED <<args, kw_reversed, cr_state, ranges, reversed,
                   built_ranges, nrev, clean_out, coordVars, heapVars,
                   dataVars, emVars, plotVars, stampVars, arrVars>>

\* Coord(c_data, labels=c_labels)
CoordInit ==
    /\ c_state = "unbuilt"
    /\ c_self' = ndarray_data(c_data, c_labels)
    /\ c_state' = coord_init
    /\ UNCHANGED <<c_data, c_ndim_in, c_labels, c_title, l2i_loc, l2i, isrev,
                   rangeVars, heapVars, dataVars, emVars, plotVars,
                   stampVars, arrVars>>

\* coord._loc2index(loc)
Loc2Index ==
    /\ c_state = "ok"
    /\ \E loc \in Locs :
          /\ l2i_loc' = loc
          /\ l2i' = loc2index(c_self, c_labels, loc)
    /\ UNCHANGED <<c_data, c_ndim_in, c_labels, c_state, c_self, c_title,
                   isrev, rangeVars, heapVars, dataVars, emVars, plotVars,
                   stampVars, arrVars>>

\* coord.is_reversed
ReadIsReversed ==
    /\ c_state = "ok"
    /\ isrev' = <<is_reversed(c_title, c_self)>>
    /\ UNCHANGED <<c_data, c_ndim_in, c_labels, c_state, c_self, c_title,
                   l2i_loc, l2i, rangeVars, heapVars, dataVars, emVars,
                   plotVars, stampVars, arrVars>>

\* Coord(arr, labels=labels, copy=copy): the new object has no units and a
\* mask of its own
CoordFromArray ==
    /\ Len(h_objs) < MaxObjs
    /\ \E copy \in BOOLEAN, labels \in {<<>>} \cup {<<l>> : l \in LabelVals} :
          LET d == take_data(h_bufs, 1, copy)
              m1 == alloc(h_bufs, d, 1)
              m2 == Append(m1, <<0>>)
          IN  /\ h_bufs' = m2
              /\ h_objs' = Append(h_objs,
                     [buf |-> d, mask |-> Len(m2), units |-> "",
                      labels |-> labels,
                      made |-> [how |-> "array", of |-> 1, copy |-> copy]])
    /\ h_last' = [op |-> "init", target |-> 0, ret |-> Len(h_objs) + 1]
    /\ UNCHANGED <<rangeVars, coordVars, dataVars, emVars, plotVars, stampVars,
                   arrVars>>

\* Coord(other, copy=copy): the mask, the labels and the units of other are
\* used
CoordFromCoord ==
    /\ Len(h_objs) < MaxObjs
    /\ \E o \in 1..Len(h_objs), copy \in BOOLEAN :
          LET src == h_objs[o]
              d == take_data(h_bufs, src.buf, copy)
              m1 == alloc(h_bufs, d, src.buf)
              m == take_data(m1, src.mask, copy)
              m2 == alloc(m1, m, src.mask)
          IN  /\ h_bufs' = m2
              /\ h_objs' = Append(h_objs,
                     [buf |-> d, mask |-> m, units |-> src.units,
                      labels |-> src.labels,
                      made |-> [how |-> "coord", of |-> o, copy |-> copy]])
              /\ h_last' = [op |-> "init", target |-> o,
                            ret |-> Len(h_objs) + 1]
    /\ UNCHANGED <<rangeVars, coordVars, dataVars, emVars, plotVars, stampVars,
                   arrVars>>

\* the original: the first Coord built on the source array
BuildOriginal ==
    /\ h_objs = <<>>
    /\ CoordFromArray

\* other.copy()
CopyCall ==
    /\ Len(h_objs) <= MaxCopies
    /\ \E o \in 1..Len(h_objs) :
          LET src == h_objs[o]
              d == copy_buf(h_bufs, src.buf)
              m1 == alloc(h_bufs, d, src.buf)
              m == copy_buf(m1, src.mask)
              m2 == alloc(m1, m, src.mask)
          IN  /\ h_bufs' = m2
              /\ h_objs' = Append(h_objs,
                     [buf |-> d, mask |-> m, units |-> src.units,
                      labels |-> src.labels,
                      made |-> [how |-> "copy", of |-> o, copy |-> TRUE]])
              /\ h_last' = [op |-> "copy", target |-> o,
                            ret |-> Len(h_objs) + 1]
    /\ UNCHANGED <<rangeVars, coordVars, dataVars, emVars, plotVars, stampVars,
                   arrVars>>

\* obj.T
ReadT ==
    /\ \E o \in 1..Len(h_objs) :
          h_last' = [op |-> "T", target |-> o, ret |-> T(o)]
    /\ UNCHANGED <<h_bufs, h_objs, rangeVars, coordVars, dataVars, emVars, plotVars,
                   stampVars, arrVars>>

\* obj.data[0] = v
SetData ==
    /\ \E o \in 1..Len(h_objs), v \in BufVals :
          /\ h_bufs' = [h_bufs EXCEPT ![h_objs[o].buf] = <<v>>]
          /\ h_last' = [op |-> "setdata", target |-> o, ret |-> 0]
    /\ UNCHANGED <<h_objs, rangeVars, coordVars, dataVars, emVars, plotVars,
                   stampVars, arrVars>>

\* obj.mask[0] = v
SetMask ==
    /\ \E o \in 1..Len(h_objs), v \in BufVals :
          /\ h_bufs' = [h_bufs EXCEPT ![h_objs[o].mask] = <<v>>]
          /\ h_last' = [op |-> "setmask", target |-> o, ret |-> 0]
    /\ UNCHANGED <<h_objs, rangeVars, coordVars, dataVars, emVars, plotVars,
                   stampVars, arrVars>>

\* obj.units = u
SetUnits ==
    /\ \E o \in 1..Len(h_objs), u \in UnitVals :
          /\ h_objs' = [h_objs EXCEPT ![o].units = u]
          /\ h_last' = [op |-> "setunits", target |-> o, ret |-> 0]
    /\ UNCHANGED <<h_bufs, rangeVars, coordVars, dataVars, emVars, plotVars,
                   stampVars, arrVars>>

\* arr[0] = v, on the source array
SetArray ==
    /\ \E v \in BufVals :
          h_bufs' = [h_bufs EXCEPT ![1] = <<v>>]
    /\ h_last' = [op |-> "setarray", target |-> 0, ret |-> 0]
    /\ UNCHANGED <<h_objs, rangeVars, coordVars, dataVars, emVars, plotVars,
                   stampVars, arrVars>>

\* dataset.coordset = [...], coordinates of the sizes given
SetCoordset ==
    /\ \E sizes \in SizeLists :
          LET exc == validate(d_shape, sizes) IN
          /\ d_exc' = [exc |-> exc, tried |-> sizes]
          /\ d_coordset' = IF exc = "none" THEN sizes ELSE d_coordset
    /\ UNCHANGED <<d_shape, csv_out, rangeVars, coordVars, heapVars, emVars,
                   plotVars, stampVars, arrVars>>

\* _read_csv(dataset, filename): works on a copy, the dataset is left alone
ReadCsv ==
    /\ \E n \in 2..MaxExtent, name \in LabelVals :
          csv_out' = read_csv(n, name)
    /\ UNCHANGED <<d_shape, d_coordset, d_exc, rangeVars, coordVars,
                   heapVars, emVars, plotVars, stampVars, arrVars>>

\* source.em(*pos, lb=kw_lb, shifted=shifted, axis=axis), in place
Em ==
    /\ em_n < MaxEm
    /\ \E kw_lb \in 0..MaxLb, pos \in {<<>>} \cup {<<l>> : l \in 1..MaxLb},
          shifted \in Shifts, axis \in {-1, 0} :
          /\ em_data' = em(em_data, kw_lb, pos, shifted, axis)
          /\ em_call' = [lb |-> em_lb(kw_lb, pos), axis |-> axis]
    /\ em_n' = em_n + 1
    /\ UNCHANGED <<em_shape0, rangeVars, coordVars, heapVars, dataVars, plotVars,
                   stampVars, arrVars>>

\* multiplot(sources, ...)
Multiplot ==
    /\ mp_out = NotPlotted
    /\ mp_out' = multiplot(mp_in)
    /\ UNCHANGED <<mp_in, rangeVars, coordVars, heapVars, dataVars, emVars,
                   stampVars, arrVars>>

\* the operation of the kind given is made at the time t, with the dates
\* it leaves
Operation(kind, t, dates) ==
    /\ t_now' = t
    /\ t_date' = dates.date
    /\ t_modified' = dates.modified
    /\ t_last' = kind
    /\ UNCHANGED <<rangeVars, coordVars, heapVars, dataVars, emVars,
                   plotVars, arrVars>>

\* a mutating method, such as dataset.title = ...
Mutate ==
    \E t \in t_now..MaxTime :
        Operation("mutate", t, touch(t_date, t_modified, t))

\* a read-only operation, such as dataset.shape
ReadOnly ==
    \E t \in t_now..MaxTime :
        Operation("read", t, [date |-> t_date, modified |-> t_modified])

\* dataset = _read_csv(dataset, filename): the copy is populated, then dated
ReaderCsv ==
    \E t1 \in t_now..MaxTime : \E t2 \in t1..MaxTime :
        LET new == touch(t_date, t_modified, t1) IN
        Operation("csv", t2, stamp(new.date, new.modified, t2))

\* dataset = _read_csv(dataset, filename, origin='omnic'): _add_omnic_info
\* sets the metadata of what _read_csv made, then dates it again
ReaderOmnic ==
    \E t1 \in t_now..MaxTime : \E t2 \in t1..MaxTime :
        LET new == stamp(t_date, t_modified, t1)
            set == touch(new.date, new.modified, t2)
        IN  Operation("omnic", t2, stamp(set.date, set.modified, t2))

\* nd_a[lo:hi]
Slice ==
    /\ nd_n = 0
    /\ \E lo \in -Len(nd_a.data)..Len(nd_a.data),
          hi \in -Len(nd_a.data)..Len(nd_a.data) :
          /\ nd_op' = [op |-> "slice", lo |-> lo, hi |-> hi, target |-> "s"]
          /\ nd_out' = [exc |-> "none", val |-> getitem(nd_a, lo, hi)]
    /\ nd_n' = nd_n + 1
    /\ UNCHANGED <<nd_a, nd_b, rangeVars, coordVars, heapVars, dataVars,
                   emVars, plotVars, stampVars>>

\* nd_a[i]
Index ==
    /\ nd_n = 0
    /\ \E i \in -Len(nd_a.data)..Len(nd_a.data) :
          /\ nd_op' = [op |-> "index", lo |-> i, hi |-> i, target |-> "s"]
          /\ nd_out' = getindex(nd_a, i)
    /\ nd_n' = nd_n + 1
    /\ UNCHANGED <<nd_a, nd_b, rangeVars, coordVars, heapVars, dataVars,
                   emVars, plotVars, stampVars>>

\* nd_a + nd_b
Add ==
    /\ nd_n < MaxOps
    /\ nd_op' = [op |-> "add", lo |-> 0, hi |-> 0, target |-> "s"]
    /\ nd_out' = add(nd_a, nd_b)
    /\ nd_n' = nd_n + 1
    /\ UNCHANGED <<nd_a, nd_b, rangeVars, coordVars, heapVars, dataVars,
                   emVars, plotVars, stampVars>>

\* nd_a += nd_b
IAdd ==
    /\ nd_n < MaxOps
    /\ nd_op' = [op |-> "iadd", lo |-> 0, hi |-> 0, target |-> "s"]
    /\ nd_out' = add(nd_a, nd_b)
    /\ nd_a' = IF nd_out'.exc = "none" THEN nd_out'.val ELSE nd_a
    /\ nd_n' = nd_n + 1
    /\ UNCHANGED <<nd_b, rangeVars, coordVars, heapVars, dataVars, emVars,
                   plotVars, stampVars>>

\* nd_a.to(w), in place
Convert ==
    /\ nd_n < MaxOps
    /\ \E w \in Units :
          /\ nd_op' = [op |-> "to", lo |-> 0, hi |-> 0, target |-> w]
          /\ nd_out' = to(nd_a, w)
    /\ nd_a' = nd_out'.val
    /\ nd_n' = nd_n + 1
    /\ UNCHANGED <<nd_b, rangeVars, coordVars, heapVars, dataVars, emVars,
                   plotVars, stampVars>>

\* the life of one CoordRange object
NextRange == Construct \/ ReverseCall

SpecRange == InitRange /\ [][NextRange]_vars

\* the static method _cleanranges, called on its own
NextClean == CallCleanranges \/ CleanAgain

SpecClean == InitClean /\ [][NextClean]_vars

\* the life of one Coord object

NextCoord == CoordInit \/ Loc2Index

SpecCoord == InitCoord /\ [][NextCoord]_vars

\* one Coord and its is_reversed property
NextTitle == CoordInit \/ ReadIsReversed

SpecTitle == InitTitle /\ [][NextTitle]_vars

\* one Coord built on an array, copied, transposed and written to
NextHeap ==
    \/ BuildOriginal
    \/ CopyCall
    \/ ReadT
    \/ SetData
    \/ SetMask
    \/ SetUnits

SpecHeap == InitHeap /\ [][NextHeap]_vars

\* Coord objects built on one array and on each other, the data written to
NextShare ==
    \/ CoordFromArray
    \/ CoordFromCoord
    \/ SetData
    \/ SetArray

SpecShare == InitHeap /\ [][NextShare]_vars

\* one dataset, coordsets attached to it, files read
NextData == SetCoordset \/ ReadCsv

SpecData == InitData /\ [][NextData]_vars

\* one dataset, apodized again and again
NextEm == Em

SpecEm == InitEm /\ [][NextEm]_vars

\* one call of multiplot
NextPlot == Multiplot

SpecPlot == InitPlot /\ [][NextPlot]_vars

\* one dataset and the operations made on it as time goes
NextStamp == Mutate \/ ReadOnly \/ ReaderCsv \/ ReaderOmnic

SpecStamp == InitStamp /\ [][NextStamp]_vars

\* one array, sliced or indexed
NextSlice == Slice \/ Index

SpecSlice == InitSlice /\ [][NextSlice]_vars

\* two arrays, added and converted
NextArith == Add \/ IAdd \/ Convert

SpecArith == InitArith /\ [][NextArith]_vars

\* ------------------------------------------------------- CoordRange claims

\* every pair [low, high], each low strictly above the previous high
AscNormalized(rs) ==
    /\ \A i \in 1..Len(rs) : rs[i][1] <= rs[i][2]
    /\ \A i \in 1..(Len(rs) - 1) : rs[i + 1][1] > rs[i][2]

\* every pair [high, low], each high strictly below the previous low
DescNormalized(rs) ==
    /\ \A i \in 1..Len(rs) : rs[i][1] >= rs[i][2]
    /\ \A i \in 1..(Len(rs) - 1) : rs[i + 1][1] < rs[i][2]

\* the same arguments with every pair given as (low, high)
PreSorted(a) ==
    [i \in 1..Len(a) |->
        IF Len(a[i]) = 2 /\ a[i][1] > a[i][2]
        THEN <<a[i][2], a[i][1]>> ELSE a[i]]

JustBuilt == cr_state = "built" /\ nrev = 0

\* C1: a CoordRange constructed with reversed=False, through any of the three
\* constructor forms, stores pairs [low, high] with low <= high, in ascending
\* order, each low strictly greater than the previous high.
C1_NormalizedAscending ==
    (JustBuilt /\ ~kw_reversed) => AscNormalized(ranges)

C1_Witness ==
    /\ JustBuilt /\ ~kw_reversed
    /\ args = <<<<5, 2>>, <<1, 3>>>>
    /\ ranges = <<<<1, 5>>>>

\* C2: the stored ranges do not depend on the endpoint order inside the input
\* pairs: they equal the ranges stored for the same pairs each pre-sorted
\* into (low, high).  Stated for reversed=False, which the claim includes.
C2_EndpointOrderIrrelevant ==
    (JustBuilt /\ ~kw_reversed /\ args \in PairArgs)
        => ranges = init(PreSorted(args), kw_reversed).val

\* C3: a CoordRange constructed with reversed=True whose pairs normalize to
\* two or more disjoint intervals stores them in decreasing order: endpoints
\* descending inside each pair and the pairs descending too.
C3_ReversedDescending ==
    (JustBuilt /\ kw_reversed /\ Len(ranges) >= 2) => DescNormalized(ranges)

C4_Case ==
    JustBuilt /\ kw_reversed /\ args = <<<<1, 3>>, <<2, 5>>>>

\* C4 (as claimed): reversed=True on the pairs [1,3] and [2,5] stores
\* [[5,2],[3,1]].
C4_ReversedExample == C4_Case => ranges = <<<<5, 2>>, <<3, 1>>>>

\* C4 (amended): reversed=True on the pairs [1,3] and [2,5] stores one merged
\* pair, whose endpoints are 1 and 5.
C4_ReversedExampleMerged ==
    C4_Case => (Len(ranges) = 1 /\ {ranges[1][1], ranges[1][2]} = {1, 5})

C4_Witness == C4_Case /\ nranges = 1

\* C5: after construction and after any sequence of reverse() calls the
\* ranges are oriented as the `reversed` flag says: ascending [low, high]
\* pairs when it is False, descending [high, low] pairs when it is True.
C5_FlagMatchesOrientation ==
    cr_state = "built"
        => IF reversed THEN DescNormalized(ranges) ELSE AscNormalized(ranges)

\* C6: reverse() maps [[a1,b1],...,[an,bn]] to [[bn,an],...,[b1,a1]], the
\* number of ranges unchanged, and an even number of reverse() calls in a row
\* restores exactly the ranges the constructor left.
C6_ReverseInvolution ==
    [][nrev' = nrev + 1 =>
          /\ Len(ranges') = Len(ranges)
          /\ \A i \in 1..Len(ranges) :
                ranges'[i] = <<ranges[Len(ranges) + 1 - i][2],
                               ranges[Len(ranges) + 1 - i][1]>>
          /\ (nrev' % 2 = 0 => ranges' = built_ranges)]_vars

C6_Witness ==
    /\ cr_state = "built" /\ nrev = 2
    /\ Len(ranges) = 2 /\ ranges = built_ranges
    /\ ranges[1] # ranges[2] /\ ranges[1][1] # ranges[1][2]

C8_EmptyShortCircuits ==
    (clean_out # NotCalled /\ Len(args) = 0)
        => clean_out = [exc |-> "none", val |-> <<>>]

\* ------------------------------------------------------------ Coord claims

\* C9: every Coord reports ndim = 1, and constructing a Coord from data of
\* more than one dimension fails with a ValueError.
C9_RejectsMultiDim ==
    /\ c_state = "ok" => ndim = 1
    /\ (c_state # "unbuilt" /\ c_ndim_in > 1) => c_state = "ValueError"

InDomain ==
    /\ l2i # NotLooked /\ l2i_loc.kind = "number"
    /\ \E i \in 1..Len(c_self) : c_self[i] <= l2i_loc.val
    /\ \E i \in 1..Len(c_self) : c_self[i] >= l2i_loc.val

\* C10: for a numeric loc with min(data) <= loc <= max(data), _loc2index
\* returns an index minimizing abs(data[i] - loc), the lowest such index when
\* several points are equally near, and emits no warning.
C10_NearestInDomain ==
    InDomain =>
        /\ l2i.exc = "none" /\ ~l2i.warned /\ Len(l2i.ret) = 1
        /\ LET k == l2i.ret[1] + 1 IN
           /\ k \in 1..Len(c_self)
           /\ \A j \in 1..Len(c_self) :
                 /\ Abs(c_self[k] - l2i_loc.val) <= Abs(c_self[j] - l2i_loc.val)
                 /\ j < k =>
                      Abs(c_self[j] - l2i_loc.val) > Abs(c_self[k] - l2i_loc.val)

C10_Witness ==
    /\ InDomain
    /\ c_self = <<3, 1, 3>> /\ l2i_loc.val = 2 /\ l2i.ret = <<0>>

Looked == c_state = "ok" /\ l2i # NotLooked

IsLeast(x, v) == \A j \in 1..Len(v) : x <= v[j]

IsGreatest(x, v) == \A j \in 1..Len(v) : x >= v[j]

\* C11: for a numeric loc strictly below min(data) or strictly above
\* max(data), _loc2index raises nothing, emits the boundary warning and
\* returns an index at which the data attain their minimum (loc below) or
\* their maximum (loc above), whatever the order of the data.
C11_NearestBoundaryOutside ==
    (Looked /\ l2i_loc.kind = "number") =>
        /\ (\A j \in 1..Len(c_self) : l2i_loc.val < c_self[j]) =>
              /\ l2i.exc = "none" /\ l2i.warned /\ Len(l2i.ret) = 1
              /\ l2i.ret[1] + 1 \in 1..Len(c_self)
              /\ IsLeast(c_self[l2i.ret[1] + 1], c_self)
        /\ (\A j \in 1..Len(c_self) : l2i_loc.val > c_self[j]) =>
              /\ l2i.exc = "none" /\ l2i.warned /\ Len(l2i.ret) = 1
              /\ l2i.ret[1] + 1 \in 1..Len(c_self)
              /\ IsGreatest(c_self[l2i.ret[1] + 1], c_self)

C11_Witness ==
    /\ Looked /\ l2i_loc.kind = "number"
    /\ c_self = <<2, 3, 1>> /\ l2i_loc.val = 4
    /\ l2i.warned /\ l2i.ret = <<1>>

\* C12: for a textual loc on a Coord that has labels, _loc2index returns the
\* lowest index whose label equals loc, and raises IndexError when no label
\* equals loc; it never falls back to another index.
C12_LabelLookup ==
    (Looked /\ l2i_loc.kind = "str" /\ c_labels # <<>>) =>
        IF \E j \in 1..Len(c_labels) : c_labels[j] = l2i_loc.text
        THEN /\ l2i.exc = "none" /\ Len(l2i.ret) = 1
             /\ LET k == l2i.ret[1] + 1 IN
                /\ k \in 1..Len(c_labels)
                /\ c_labels[k] = l2i_loc.text
                /\ \A j \in 1..(k - 1) : c_labels[j] # l2i_loc.text
        ELSE l2i.exc = "IndexError" /\ l2i.ret = <<>>

C12_Witness ==
    /\ Looked /\ l2i_loc.kind = "str"
    /\ c_labels = <<"b", "a", "a">> /\ l2i_loc.text = "a" /\ l2i.ret = <<1>>

\* C13: for a loc that is a date/time value, _loc2index surfaces an explicit
\* not-implemented signal to the caller; it never completes silently.
C13_DatetimeSignalled ==
    (Looked /\ l2i_loc.kind = "datetime") => l2i.exc # "none"

\* C14: for a loc that is neither label text on a labelled Coord, nor a
\* date/time, nor a number (a textual loc on a Coord without labels
\* included), _loc2index raises IndexError and returns no index.
C14_NotRecognized ==
    (Looked /\ (l2i_loc.kind = "other"
                  \/ (l2i_loc.kind = "str" /\ c_labels = <<>>)))
        => (l2i.exc = "IndexError" /\ l2i.ret = <<>>)

C14_Witness ==
    /\ Looked /\ l2i_loc.kind = "str" /\ c_labels = <<>>
    /\ l2i.exc = "IndexError"

\* a title that, lower-cased, has `pat` at some position
HasWord(title, pat) ==
    \E i \in 1..Len(title) :
        /\ i + Len(pat) - 1 <= Len(title)
        /\ \A k \in 1..Len(pat) : LowerChar(title[i + k - 1]) = pat[k]

C16_LabelsOnlyData ==
    (c_state = "ok" /\ c_data = <<>>) =>
        /\ Len(c_self) = Len(c_labels)
        /\ \A i \in 1..Len(c_self) : c_self[i] = i - 1

C16_Witness ==
    /\ c_state = "ok" /\ c_data = <<>>
    /\ Len(c_labels) = 3 /\ c_self = <<0, 1, 2>>

\* ------------------------------------------- claims on objects in memory

\* C17: transposing a Coord is a no-op: a read of obj.T returns obj itself,
\* transposing the result again still gives obj, and the read changes no
\* object and no buffer, so data, labels, units, title and shape are as they
\* were.
C17_TransposeNoOp ==
    [][h_last'.op = "T" =>
          /\ h_last'.ret = h_last'.target
          /\ T(h_last'.ret) = h_last'.target
          /\ h_objs' = h_objs
          /\ h_bufs' = h_bufs]_vars

\* obj.T has been read while another object existed beside obj
C17_Witness ==
    /\ h_last.op = "T"
    /\ h_last.ret = h_last.target
    /\ Len(h_objs) > 1

\* c was made by o.copy()
IsCopyOf(c, o) ==
    /\ h_objs[c].made.how = "copy"
    /\ h_objs[c].made.of = o

\* C18: the object copy() returns is a new object that reads equal to the
\* original in data, mask, labels and units; afterwards a write to the data, the
\* mask or the units of the copy leaves what the original reads unchanged,
\* and a write to the original leaves what the copy reads unchanged.
C18_CopyIndependent ==
    [][/\ (h_last'.op = "copy" /\ Len(h_objs') > Len(h_objs)) =>
              /\ h_last'.ret \notin 1..Len(h_objs)
              /\ View(h_bufs', h_objs', h_last'.ret)
                     = View(h_bufs, h_objs, h_last'.target)
       /\ \A o \in 1..Len(h_objs), p \in 1..Len(h_objs) :
              (/\ IsCopyOf(o, p) \/ IsCopyOf(p, o)
               /\ h_last'.op \in {"setdata", "setmask", "setunits"}
               /\ h_last'.target = p)
              => View(h_bufs', h_objs', o) = View(h_bufs, h_objs, o)]_vars

\* a copy and its original differ in data, mask and units: each has been
\* written to after the copy was made
C18_Witness ==
    \E c \in 1..Len(h_objs) :
        /\ h_objs[c].made.how = "copy"
        /\ LET o == h_objs[c].made.of IN
           /\ View(h_bufs, h_objs, c).data # View(h_bufs, h_objs, o).data
           /\ View(h_bufs, h_objs, c).mask # View(h_bufs, h_objs, o).mask
           /\ View(h_bufs, h_objs, c).units # View(h_bufs, h_objs, o).units
           /\ h_last.op = "setdata"

\* the data buffer of the source the object x was built from
SourceBuf(x) ==
    IF h_objs[x].made.how = "array" THEN 1 ELSE h_objs[h_objs[x].made.of].buf

\* the step writes to the data of the source of x
WritesSource(x) ==
    \/ h_objs[x].made.how = "array" /\ h_last'.op = "setarray"
    \/ /\ h_objs[x].made.how = "coord"
       /\ h_last'.op = "setdata"
       /\ h_last'.target = h_objs[x].made.of

\* C19: a Coord built from an existing array or Coord with the copy argument
\* left at its default holds a copy: a write to the source data does not
\* change the data the Coord reads, and a write through the Coord does not
\* change the source data.
C19_DefaultCopies ==
    [][\A x \in 1..Len(h_objs) :
          (h_objs[x].made.how \in {"array", "coord"} /\ ~h_objs[x].made.copy)
          => /\ WritesSource(x) =>
                    h_bufs'[h_objs[x].buf] = h_bufs[h_objs[x].buf]
             /\ (h_last'.op = "setdata" /\ h_last'.target = x) =>
                    h_bufs'[SourceBuf(x)] = h_bufs[SourceBuf(x)]]_vars

\* ------------------------------------------------------- NDDataset claims

Aligned(shape, sizes) ==
    /\ Len(sizes) = Len(shape)
    /\ \A k \in 1..Len(shape) : sizes[k] = shape[k]

Ordered(a) == \A i \in 1..Len(a) : a[i][1] <= a[i][2]

\* the value x2 / 2 lies in the closed interval r: half-integers are tested
\* too, so that a gap between two integers is seen
Inside(x2, r) == 2 * r[1] <= x2 /\ x2 <= 2 * r[2]

Covered(x2, rs) == \E i \in 1..Len(rs) : Inside(x2, rs[i])

\* the pairs p and q overlap or touch
Meet(p, q) == p[1] <= q[2] /\ q[1] <= p[2]

\* C28: for pairs given as (low, high), _cleanranges preserves coverage: a
\* value lies in some returned range iff it lies in some input pair; two
\* pairs that overlap or touch lie in one returned range, the returned
\* ranges are separated by gaps, and a pair contained in the current
\* interval does not shrink it.
C28_SweepPreservesCoverage ==
    (clean_out.exc = "none" /\ Ordered(args)) =>
        LET out == clean_out.val IN
        /\ \A x2 \in 2..(2 * MaxCleanVal) : Covered(x2, out) <=> Covered(x2, args)
        /\ AscNormalized(out)
        /\ \A i \in 1..Len(args), j \in 1..Len(args) :
              Meet(args[i], args[j]) =>
                  \E k \in 1..Len(out) :
                      /\ out[k][1] <= args[i][1] /\ args[i][2] <= out[k][2]
                      /\ out[k][1] <= args[j][1] /\ args[j][2] <= out[k][2]

\* two pairs that merely touch, passed high pair first, came back as one
C28_Witness ==
    /\ clean_out.exc = "none"
    /\ Len(args) > 1
    /\ Ordered(args)
    /\ args[1][1] = args[2][2]
    /\ args[1][1] < args[1][2]
    /\ args[2][1] < args[2][2]
    /\ Len(clean_out.val) = 1

\* C29: _cleanranges is idempotent: called on the list it returned for any
\* non-empty collection of pairs, endpoints in either order, it returns that
\* list again.
C29_CleanIdempotent ==
    clean_twice # NotCalled => clean_twice = clean_out


\* the arguments a in every order
Permuted(a) ==
    {[i \in 1..Len(a) |-> a[p[i]]] :
        p \in {q \in [1..Len(a) -> 1..Len(a)] :
                  \A i, j \in 1..Len(a) : q[i] = q[j] => i = j}}

\* C30: the ranges a CoordRange stores do not depend on the order of the
\* pairs: the constructor called on any permutation of the pairs stores the
\* same ranges.
C30_PairOrderIrrelevant ==
    (JustBuilt /\ Len(args) > 0 /\ \A i \in 1..Len(args) : ~IsScalar(args[i])) =>
        \A b \in Permuted(args) : init(b, kw_reversed).val = ranges

\* ------------------------------------------------------------ claim on em

\* C25: em leaves the shape of the dataset unchanged, whatever the line
\* broadening, along the last axis or along axis 0, and however often it is
\* applied: the shape after em is the shape before it.
C25_EmKeepsShape ==
    em_n > 0 => Shape(em_data) = em_shape0

\* em has been applied twice, last along axis 0, to a dataset with several
\* rows and columns, and has damped its elements unequally
C25_Witness ==
    /\ em_n > 1
    /\ em_call.axis = 0
    /\ em_call.lb > 0
    /\ Len(em_data) > 1
    /\ Len(em_data[1]) > 1
    /\ em_data[1][1] # em_data[Len(em_data)][1]
    /\ Shape(em_data) = em_shape0

\* ------------------------------------------------------ claims on multiplot

Plotted == mp_out # NotPlotted

\* the share options of the call are accepted
SharesValid ==
    shares(mp_in.sharex, mp_in.sharey, mp_in.sharez, mp_in.method,
           mp_in.ndim).exc = "none"

\* C26: multiplot on n >= 1 sources raises ValueError if n < nrow * ncol;
\* otherwise the grid it uses has one cell per source: nrow * ncol = n at the
\* end, every source is plotted exactly once and no cell indexes past the
\* end of the sources, also when the grid is recomputed because the one
\* asked for is too small.
C26_OneCellPerSource ==
    Plotted =>
        /\ mp_in.n < mp_in.nrow * mp_in.ncol => mp_out.exc = "ValueError"
        /\ (mp_in.n >= mp_in.nrow * mp_in.ncol /\ SharesValid) =>
              /\ mp_out.exc = "none"
              /\ mp_out.nrow * mp_out.ncol = mp_in.n
              /\ Len(mp_out.cells) = mp_in.n
              /\ \A i \in 1..Len(mp_out.cells) : mp_out.cells[i].idx = i - 1

\* C27: with sharex='col' (sharey='col' for a method that does not exchange
\* sharey and sharez) a subplot below the first row shares the axis of the
\* first-row subplot of its own column and no subplot shares the axis of a
\* subplot of another column; with True or 'all' every subplot but the first
\* shares the axis of the first.
C27_ShareByColumn ==
    (Plotted /\ mp_out.exc = "none" /\ ~mp_in.single) =>
        \A i \in 1..Len(mp_out.cells) :
            LET c == mp_out.cells[i] IN
            /\ mp_in.sharex = "col" =>
                  c.sharex = IF c.name[1] > 1 THEN <<1, c.name[2]>> ELSE NoAxe
            /\ (mp_in.sharey = "col" /\ mp_in.method = "map") =>
                  c.sharey = IF c.name[1] > 1 THEN <<1, c.name[2]>> ELSE NoAxe
            /\ (mp_in.sharex \in {"True", "all"} /\ i > 1) =>
                  c.sharex = <<1, 1>>
            /\ (mp_in.sharey \in {"True", "all"} /\ mp_in.method = "map"
                /\ i > 1) => c.sharey = <<1, 1>>

\* --------------------------------------------------- claim on the dates

\* C24: every mutating operation on a dataset, the reader of a CSV file
\* included, sets modified to the time it is made at, and every read-only
\* operation leaves modified unchanged; so modified never decreases and is
\* never earlier than the creation date.
C24_ModifiedFollowsMutations ==
    [][/\ t_last' \in {"mutate", "csv", "omnic"} => t_modified' = t_now'
       /\ t_last' = "read" => t_modified' = t_modified
       /\ t_modified' >= t_modified
       /\ t_modified' >= t_date']_vars

\* a CSV file has been read after the clock had advanced: the dataset read
\* carries the time of the reading as its dates
C24_Witness ==
    /\ t_last = "csv"
    /\ t_modified = t_now
    /\ t_date = t_now
    /\ t_now > 1

\* ------------------------------------------------------- claims on NDArray

\* C21: slicing an NDArray that has a mask, with any slice or integer,
\* gives a result whose mask and uncertainty are the original mask and
\* uncertainty under the same selection: the result holds the elements
\* first, first + 1, ... of the original, and the mask (the uncertainty) of
\* each is the mask (the uncertainty) of the element it comes from.
C21_MaskSlicedInLockStep ==
    (nd_op.op \in {"slice", "index"} /\ nd_out.exc = "none") =>
        LET out == nd_out.val
            n == Len(nd_a.data)
            first == IF nd_op.lo >= 0 THEN nd_op.lo ELSE nd_op.lo + n
            stop == IF nd_op.op = "index" THEN first + 1
                    ELSE IF nd_op.hi >= 0 THEN nd_op.hi ELSE nd_op.hi + n
            count == IF stop > first THEN stop - first ELSE 0
        IN  /\ Len(out.data) = count
            /\ Len(out.mask) = count
            /\ \A k \in 1..count :
                  /\ out.data[k] = nd_a.data[first + k]
                  /\ out.mask[k] = nd_a.mask[first + k]
            /\ nd_a.unc # <<>> =>
                  /\ Len(out.unc) = count
                  /\ \A k \in 1..count : out.unc[k] = nd_a.unc[first + k]

\* arr[2:5] taken of an array with uncertainty whose third element only is
\* masked: the first element of the result only is masked
C21_Witness ==
    /\ nd_op.op = "slice"
    /\ nd_op.lo = 2
    /\ nd_op.hi = 5
    /\ nd_a.unc # <<>>
    /\ nd_out.val.mask = <<TRUE, FALSE, FALSE>>
    /\ nd_a.mask = <<FALSE, FALSE, TRUE, FALSE, FALSE>>

\* C22: arithmetic between two arrays of the same shape gives a result
\* whose mask is the elementwise OR of the masks of the operands: an element
\* is excluded in the result exactly when it is excluded in an operand.
C22_MaskIsOr ==
    [][(nd_n' > nd_n /\ nd_op'.op \in {"add", "iadd"}
        /\ nd_out'.exc = "none") =>
          /\ Len(nd_out'.val.mask) = Len(nd_a.mask)
          /\ \A i \in 1..Len(nd_a.mask) :
                nd_out'.val.mask[i] <=> (nd_a.mask[i] \/ nd_b.mask[i])]_vars

\* two arrays were added that each exclude an element the other keeps
C22_Witness ==
    /\ nd_op.op = "add"
    /\ nd_out.exc = "none"
    /\ nd_n = 1
    /\ \E i \in 1..Len(nd_a.mask) : nd_a.mask[i] /\ ~nd_b.mask[i]
    /\ \E i \in 1..Len(nd_a.mask) : ~nd_a.mask[i] /\ nd_b.mask[i]
    /\ \E i \in 1..Len(nd_a.mask) : ~nd_out.val.mask[i]

\* C23: an operation refused for incompatible units fails and leaves the
\* buffer and the unit tag of every operand as they were, be it arithmetic
\* between arrays of different dimensionality or the conversion to a unit
\* of another dimensionality; a conversion that succeeds changes the values
\* and the unit tag together, the quantity each element stands for being
\* the same.
C23_UnitFailureAtomic ==
    [][nd_n' > nd_n =>
          /\ (nd_op'.op \in {"add", "iadd"}
              /\ Len(nd_a.data) = Len(nd_b.data)
              /\ Dim(nd_a.units) # Dim(nd_b.units)) =>
                 /\ nd_out'.exc = "units"
                 /\ nd_a' = nd_a
                 /\ nd_b' = nd_b
          /\ (nd_op'.op = "to" /\ Dim(nd_op'.target) # Dim(nd_a.units)) =>
                 /\ nd_out'.exc = "units"
                 /\ nd_a' = nd_a
          /\ (nd_op'.op = "to" /\ Dim(nd_op'.target) = Dim(nd_a.units)) =>
                 /\ nd_out'.exc = "none"
                 /\ nd_a'.units = nd_op'.target
                 /\ \A i \in 1..Len(nd_a.data) :
                       nd_a'.data[i] * Factor(nd_a'.units)
                           = nd_a.data[i] * Factor(nd_a.units)]_vars

\* a conversion from seconds to minutes was made, then an addition in place
\* of a length was refused
C23_Witness ==
    /\ nd_n > 1
    /\ nd_op.op = "iadd"
    /\ nd_out.exc = "units"
    /\ nd_a.units = "min"
    /\ nd_a.data = Ramp(Len(nd_a.data), "min")
    /\ nd_b.units = "m"

====
